---- MODULE Spec2Model ----
(***************************************************************************)
(* State-machine model of the Full Node JSON-RPC method handlers of        *)
(* json-rpc/src/methods.rs: the request context, the method registry, the  *)
(* ten handlers, the ledger reader and the mempool channel they talk to.   *)
(***************************************************************************)
EXTENDS Integers, Sequences, FiniteSets, TLC

\* ------------------------------------------------------------------ bounds
\* Highest ledger version the database reaches.
MaxVersion == 2
\* Longest list of events the ledger reader hands back to get_events.
MaxEvents == 2
\* Longest parameter list a client sends.
MaxParams == 4
\* Largest value of the connected-peers gauge.
MaxPeers == 1

\* The limit of get_transactions (ensure!(limit > 0 && limit <= 1000)).
MaxLimit == 1000

VARIABLES
    db_version,   \* version of the latest ledger info the database holds
    req,          \* req[r]: the request running in task r
    mempool       \* mempool[r]: the channel traffic of task r's submit

vars == <<db_version, req, mempool>>

\* ------------------------------------------------------------ JSON values
\* serde_json::Value, as far as the handlers look at it.
Null == [kind |-> "null", n |-> 0, s |-> ""]
Num(i) == [kind |-> "num", n |-> i, s |-> ""]
Float == [kind |-> "float", n |-> 0, s |-> ""]
Str(t) == [kind |-> "str", n |-> 0, s |-> t]
Bool(b) == [kind |-> "bool", n |-> IF b THEN 1 ELSE 0, s |-> ""]

\* ---------------------------------------------------------------- results
Ok(v) == [tag |-> "ok", val |-> v]
Err(k, i) == [tag |-> "err", kind |-> k, info |-> i]
NoResult == [tag |-> "none"]
IsOk(x) == x.tag = "ok"
IsErr(x) == x.tag = "err"

None == [some |-> FALSE]
Some(x) == [some |-> TRUE, v |-> x]

\* anyhow errors made by ensure! and format_err! carry only their message.
Anyhow(msg) == Err("anyhow", msg)
\* An error the ledger reader returns.
DbError == Err("storage", "reader failed")

Min(a, b) == IF a < b THEN a ELSE b

\* ------------------------------------------------- parameter conversions
\* serde_json::from_value::<u64>: only a non-negative integer number. A
\* number past u64::MAX is held by serde_json as a float and is refused.
FromValueU64(v) ==
    IF v.kind = "num" /\ v.n >= 0 THEN Ok(v.n) ELSE Err("serde_json", "u64")

FromValueString(v) ==
    IF v.kind = "str" THEN Ok(v.s) ELSE Err("serde_json", "string")

FromValueBool(v) ==
    IF v.kind = "bool" THEN Ok(v.n = 1) ELSE Err("serde_json", "bool")

\* hex::decode. The strings of the model: "a1" and "ek" and "7478" decode,
\* "zz" is no hex string.
HexDecode(t) ==
    IF t \in {"a1", "ek", "7478", "beef"} THEN Ok(t) ELSE Err("hex", t)

\* lcs::from_bytes::<SignedTransaction>: of the decodable strings only
\* "7478" holds a signed transaction.
LcsSignedTransaction(bytes) ==
    IF bytes = "7478" THEN Ok([txn |-> bytes]) ELSE Err("lcs", bytes)

\* AccountAddress::from_str / try_from: "a1" is the one well-formed address.
ParseAddress(t) ==
    IF t = "a1" THEN Ok([address |-> t]) ELSE Err("address", t)

\* EventKey::try_from(&bytes): "ek" has the length of an event key.
ParseEventKey(bytes) ==
    IF bytes = "ek" THEN Ok([key |-> bytes]) ELSE Err("event_key", bytes)

\* from_currency_code_string: a currency code must be a Move identifier.
FromCurrencyCodeString(code) ==
    IF code \in {"LBR", "Coin1"} THEN Ok(code) ELSE Err("identifier", code)

\* --------------------------------------------------------- request context

\* JsonRpcRequest::get_param_with_default
get_param_with_default(r, index, default) ==
    IF Len(req[r].params) > index THEN req[r].params[index + 1] ELSE default

\* JsonRpcRequest::get_param
get_param(r, index) == get_param_with_default(r, index, Null)

\* version that asks the database for its latest version again.
version_refetched(r) == db_version

\* JsonRpcRequest::version
version(r) == req[r].ledger_info.version

\* The ledger: version v was committed at TimestampOf(v) microseconds.
TimestampOf(v) == 100 + 10 * v

\* JsonRpcService::get_latest_ledger_info
get_latest_ledger_info ==
    [version |-> db_version, timestamp_usecs |-> TimestampOf(db_version)]

\* One call of a collaborator: the ledger reader, the mempool sender or
\* the metrics registry. ver is the version (or ledger version) handed over.
NoVersion == 0 - 1
Call(fn, ver, args, ret) == [fn |-> fn, ver |-> ver, args |-> args, ret |-> ret]

IdleRequest ==
    [pc |-> "idle", method |-> "", params |-> <<>>,
     ledger_info |-> [version |-> 0, timestamp_usecs |-> 0],
     result |-> NoResult, calls |-> <<>>, entered |-> FALSE,
     response |-> None, codes |-> <<>>]

IdleChannel == [sent |-> 0, slot |-> "none", answer |-> NoResult]

\* ---------------------------------------------------------------- registry
Entry(required, optional) == [required |-> required, optional |-> optional]

\* build_registry with get_metadata's optional parameter forgotten.
build_registry_no_optional ==
    ("submit" :> Entry(1, 0)) @@
    ("get_metadata" :> Entry(0, 0)) @@
    ("get_account" :> Entry(1, 0)) @@
    ("get_transactions" :> Entry(3, 0)) @@
    ("get_account_transaction" :> Entry(3, 0)) @@
    ("get_events" :> Entry(3, 0)) @@
    ("get_currencies" :> Entry(0, 0)) @@
    ("get_state_proof" :> Entry(1, 0)) @@
    ("get_account_state_with_proof" :> Entry(3, 0)) @@
    ("get_network_status" :> Entry(0, 0))

\* build_registry: each method with its required and optional parameter counts.
build_registry ==
    ("submit" :> Entry(1, 0)) @@
    ("get_metadata" :> Entry(0, 1)) @@
    ("get_account" :> Entry(1, 0)) @@
    ("get_transactions" :> Entry(3, 0)) @@
    ("get_account_transaction" :> Entry(3, 0)) @@
    ("get_events" :> Entry(3, 0)) @@
    ("get_currencies" :> Entry(0, 0)) @@
    ("get_state_proof" :> Entry(1, 0)) @@
    ("get_account_state_with_proof" :> Entry(3, 0)) @@
    ("get_network_status" :> Entry(0, 0))

\* Method names a client may send: the registered ones and one that is not.
MethodNames == DOMAIN build_registry \cup {"get_foo"}

\* ------------------------------------------------------ what clients send
NullSeq(k) == [i \in 1..k |-> Null]

\* Parameter lists of every length: what the arity check has to sort out.
ArityProbes == {NullSeq(k) : k \in 0..MaxParams}

VersionParams == {Num(v) : v \in 0..(MaxVersion + 1)} \cup {Num(0 - 1), Float, Str("1"), Null}

LimitParams == {Num(0), Num(1), Num(2), Num(MaxLimit), Num(MaxLimit + 1), Null}

AddressParams == {Str("a1"), Str("zz"), Null}

\* The parameter lists a client sends to method m. full = FALSE keeps a
\* few well-formed ones, for the runs with two tasks side by side.
ParamChoices(m, full) ==
    IF ~full
    THEN CASE m = "submit" -> {<<Str("7478")>>, <<Str("zz")>>}
           [] m = "get_metadata" -> {<<>>, <<Num(MaxVersion)>>}
           [] m = "get_account" -> {<<Str("a1")>>}
           [] m = "get_transactions" -> {<<Num(0), Num(1), Bool(FALSE)>>}
           [] m = "get_account_transaction" -> {<<Str("a1"), Num(0), Bool(FALSE)>>}
           [] m = "get_state_proof" -> {<<Num(0)>>}
           [] OTHER -> {<<>>}
    ELSE ArityProbes \cup
         CASE m = "submit" ->
                {<<Str(t)>> : t \in {"7478", "beef", "zz"}}
           [] m = "get_metadata" ->
                {<<p>> : p \in VersionParams}
           [] m = "get_account" ->
                {<<a>> : a \in AddressParams}
           [] m = "get_transactions" ->
                {<<s, l, e>> : s \in {Num(v) : v \in 0..(MaxVersion + 1)} \cup {Null},
                               l \in LimitParams,
                               e \in {Bool(TRUE), Bool(FALSE), Null}}
           [] m = "get_account_transaction" ->
                {<<a, s, e>> : a \in AddressParams, s \in {Num(0), Null},
                               e \in {Bool(TRUE), Bool(FALSE), Null}}
           [] m = "get_events" ->
                {<<k, s, l>> : k \in {Str("ek"), Str("beef"), Str("zz"), Null},
                               s \in {Num(0), Null}, l \in {Num(MaxEvents), Null}}
           [] m = "get_state_proof" ->
                {<<Num(v)>> : v \in 0..MaxVersion}
           [] m = "get_account_state_with_proof" ->
                {<<a, v, l>> : a \in {Str("a1"), Str("zz")},
                               v \in VersionParams, l \in VersionParams}
           [] OTHER -> {}

\* ---------------------------------------------------- request life cycle
\* The database commits a new version: the latest ledger info moves on.
AdvanceLedger ==
    /\ db_version < MaxVersion
    /\ db_version' = db_version + 1
    /\ UNCHANGED <<req, mempool>>

\* A request arrives in task r: its context is built from the parameters
\* and the ledger info that is the latest at this moment.
Receive(r, methods, full) ==
    /\ req[r].pc = "idle"
    /\ \E m \in methods : \E ps \in ParamChoices(m, full) :
         req' = [req EXCEPT ![r] =
                    [IdleRequest EXCEPT !.pc = "received", !.method = m,
                                        !.params = ps,
                                        !.ledger_info = get_latest_ledger_info]]
    /\ UNCHANGED <<db_version, mempool>>

\* The handler's return: the task ends with this result.
Return(r, result, calls) ==
    req' = [req EXCEPT ![r].pc = "done", ![r].result = result,
                       ![r].calls = req[r].calls \o calls,
                       ![r].entered = TRUE]

\* The arity check register_rpc_method! wraps around every handler.
CheckArity(m, given) ==
    LET e == build_registry[m]
    IN  IF given < e.required \/ given > e.required + e.optional
        THEN Err("invalid_params", "InvalidArguments")
        ELSE Ok(m)

\* Dispatch of task r's request: the registry lookup, then the arity check,
\* and only then the handler's body.
Dispatch(r) ==
    /\ req[r].pc = "received"
    /\ LET m == req[r].method
       IN  IF m \notin DOMAIN build_registry
           THEN req' = [req EXCEPT ![r].pc = "done",
                                   ![r].result = Err("method_not_found", m)]
           ELSE LET a == CheckArity(m, Len(req[r].params))
                IN  IF IsErr(a)
                    THEN req' = [req EXCEPT ![r].pc = "done", ![r].result = a]
                    ELSE req' = [req EXCEPT ![r].pc = "run"]
    /\ UNCHANGED <<db_version, mempool>>

\* The response has left: task r is free for the next request.
Respond(r) ==
    /\ req[r].pc = "done"
    /\ req' = [req EXCEPT ![r] = IdleRequest]
    /\ mempool' = [mempool EXCEPT ![r] = IdleChannel]
    /\ UNCHANGED db_version

Running(r, m) == req[r].pc = "run" /\ req[r].method = m

\* ------------------------------------------------------------ get_metadata
ReaderTimestamps == {DbError} \cup {Ok(TimestampOf(v)) : v \in 0..MaxVersion}

\* get_metadata that falls back to the request's ledger info when the given
\* version lies past it.
get_metadata_clamped(r, ts) ==
    LET p == FromValueU64(get_param(r, 0))
    IN  IF IsOk(p) /\ p.val <= req[r].ledger_info.version
        THEN [calls |-> <<Call("get_block_timestamp", p.val, <<>>, ts)>>,
              result |-> IF IsOk(ts)
                         THEN Ok([version |-> p.val, timestamp |-> ts.val])
                         ELSE ts]
        ELSE [calls |-> <<>>,
              result |-> Ok([version |-> req[r].ledger_info.version,
                             timestamp |-> req[r].ledger_info.timestamp_usecs])]

\* get_metadata; ts is what the reader's get_block_timestamp answers.
get_metadata(r, ts) ==
    LET p == FromValueU64(get_param(r, 0))
    IN  IF IsOk(p)
        THEN [calls |-> <<Call("get_block_timestamp", p.val, <<>>, ts)>>,
              result |-> IF IsOk(ts)
                         THEN Ok([version |-> p.val, timestamp |-> ts.val])
                         ELSE ts]
        ELSE [calls |-> <<>>,
              result |-> Ok([version |-> version(r),
                             timestamp |-> req[r].ledger_info.timestamp_usecs])]

GetMetadata(r) ==
    /\ Running(r, "get_metadata")
    /\ \E ts \in ReaderTimestamps :
         LET h == get_metadata(r, ts) IN Return(r, h.result, h.calls)
    /\ UNCHANGED <<db_version, mempool>>

\* ------------------------------------------------------ get_network_status
get_network_status(r, gauge) ==
    [calls |-> <<Call("LIBRA_NETWORK_PEERS", NoVersion, <<>>, gauge)>>,
     result |-> gauge]

GetNetworkStatus(r) ==
    /\ Running(r, "get_network_status")
    /\ \E gauge \in {Err("prometheus", "label")} \cup {Ok(n) : n \in 0..MaxPeers} :
         LET h == get_network_status(r, gauge) IN Return(r, h.result, h.calls)
    /\ UNCHANGED <<db_version, mempool>>

\* --------------------------------------------------------- get_state_proof
\* get_state_proof; proofs is what the reader answers, view_ok whether
\* StateProofView::try_from accepts it.
get_state_proof(r, proofs, view_ok) ==
    LET known == FromValueU64(get_param(r, 0))
    IN  IF IsErr(known) THEN [calls |-> <<>>, result |-> known]
        ELSE [calls |-> <<Call("get_state_proof_with_ledger_info",
                               req[r].ledger_info.version, <<known.val>>, proofs)>>,
              result |-> IF IsErr(proofs) THEN proofs
                         ELSE IF ~view_ok THEN Err("lcs", "StateProofView")
                         ELSE Ok([ledger_info |-> req[r].ledger_info,
                                  proofs |-> proofs.val])]

GetStateProof(r) ==
    /\ Running(r, "get_state_proof")
    /\ \E proofs \in {DbError, Ok("proofs")} : \E view_ok \in BOOLEAN :
         LET h == get_state_proof(r, proofs, view_ok)
         IN  Return(r, h.result, h.calls)
    /\ UNCHANGED <<db_version, mempool>>

\* -------------------------------------------- get_account_state_with_proof
\* get_account_state_with_proof; proof is what the reader answers, view_ok
\* whether AccountStateWithProofView::try_from accepts it.
get_account_state_with_proof(r, proof, view_ok) ==
    LET address == FromValueString(get_param(r, 0))
        account_address == IF IsOk(address) THEN ParseAddress(address.val) ELSE address
        pv == FromValueU64(get_param(r, 1))
        pl == FromValueU64(get_param(r, 2))
        ver == IF IsOk(pv) THEN pv.val ELSE version(r)
        ledger_version == IF IsOk(pl) THEN pl.val ELSE version(r)
    IN  IF IsErr(account_address) THEN [calls |-> <<>>, result |-> account_address]
        ELSE [calls |-> <<Call("get_account_state_with_proof", ver,
                               <<account_address.val.address, ver, ledger_version>>,
                               proof)>>,
              result |-> IF IsErr(proof) THEN proof
                         ELSE IF ~view_ok THEN Err("lcs", "AccountStateWithProofView")
                         ELSE Ok([proof |-> proof.val])]

GetAccountStateWithProof(r) ==
    /\ Running(r, "get_account_state_with_proof")
    /\ \E proof \in {DbError, Ok("state_with_proof")} : \E view_ok \in BOOLEAN :
         LET h == get_account_state_with_proof(r, proof, view_ok)
         IN  Return(r, h.result, h.calls)
    /\ UNCHANGED <<db_version, mempool>>

\* -------------------------------------------------------- get_transactions
\* The transaction the ledger holds at version v, and the events it emitted.
TransactionAt(v) == [txn |-> v, gas_used |-> v + 1]
EventsAt(v) == [j \in 1..(v % 2) |-> [key |-> "ek", seq |-> v]]

\* DbReader::get_transactions: the transactions from start on, at most limit
\* of them and none past ledger_version.
ReaderTransactions(start, limit, ledger_version) ==
    LET count == IF start > ledger_version THEN 0
                 ELSE Min(limit, ledger_version - start + 1)
    IN  [i \in 1..count |-> TransactionAt(start + i - 1)]

\* What the reader may answer to get_transactions: an error, or the range
\* with one transaction info each and, when events were asked for, an events
\* batch that may be missing or short.
ReaderTransactionLists(start, limit, ledger_version, include_events, full) ==
    LET T == ReaderTransactions(start, limit, ledger_version)
        infos == [i \in 1..Len(T) |-> [gas_used |-> T[i].gas_used]]
        batch(k) == [i \in 1..k |-> EventsAt(T[i].txn)]
        batches == IF ~include_events THEN {None}
                   ELSE IF ~full THEN {Some(batch(Len(T)))}
                   ELSE {None} \cup {Some(batch(k)) : k \in 0..Len(T)}
    IN  (IF full THEN {DbError} ELSE {}) \cup
        {Ok([transactions |-> T, infos |-> infos, events |-> e]) : e \in batches}

\* get_transactions_check with a limit of 0 let through.
get_transactions_check_zero(r) ==
    LET start_version == FromValueU64(get_param(r, 0))
        limit == FromValueU64(get_param(r, 1))
        include_events == FromValueBool(get_param(r, 2))
    IN  IF IsErr(start_version) THEN start_version
        ELSE IF IsErr(limit) THEN limit
        ELSE IF IsErr(include_events) THEN include_events
        ELSE IF ~(limit.val >= 0 /\ limit.val <= MaxLimit)
             THEN Anyhow("limit must be smaller than 1000")
        ELSE Ok([start_version |-> start_version.val, limit |-> limit.val,
                 include_events |-> include_events.val])

\* get_transactions up to the ensure!: the three parameters and the limit.
get_transactions_check(r) ==
    LET start_version == FromValueU64(get_param(r, 0))
        limit == FromValueU64(get_param(r, 1))
        include_events == FromValueBool(get_param(r, 2))
    IN  IF IsErr(start_version) THEN start_version
        ELSE IF IsErr(limit) THEN limit
        ELSE IF IsErr(include_events) THEN include_events
        ELSE IF ~(limit.val > 0 /\ limit.val <= MaxLimit)
             THEN Anyhow("limit must be smaller than 1000")
        ELSE Ok([start_version |-> start_version.val, limit |-> limit.val,
                 include_events |-> include_events.val])

\* get_transactions from the reader's answer txs on: the views.
get_transactions_views(start_version, include_events, txs) ==
    IF IsErr(txs) THEN txs
    ELSE LET t == txs.val
             n == Min(Len(t.transactions), Len(t.infos))
         IN  IF include_events /\ ~t.events.some
             THEN Anyhow("Storage layer didn't return events when requested!")
             ELSE IF include_events /\ Len(t.events.v) < n
             THEN Anyhow("Missing events for version")
             ELSE Ok([v \in 1..n |->
                        [version |-> start_version + (v - 1),
                         hash |-> t.transactions[v].txn,
                         events |->
                            IF include_events
                            THEN [j \in 1..Len(t.events.v[v]) |->
                                    [transaction_version |-> start_version + (v - 1),
                                     event |-> t.events.v[v][j]]]
                            ELSE <<>>,
                         gas_used |-> t.infos[v].gas_used]])

GetTransactions(r, full) ==
    /\ Running(r, "get_transactions")
    /\ LET a == get_transactions_check(r)
       IN  IF IsErr(a) THEN Return(r, a, <<>>)
           ELSE \E txs \in ReaderTransactionLists(a.val.start_version, a.val.limit,
                                                  version(r), a.val.include_events,
                                                  full) :
                  Return(r,
                         get_transactions_views(a.val.start_version,
                                                a.val.include_events, txs),
                         <<Call("get_transactions", version(r),
                                <<a.val.start_version, a.val.limit>>, txs)>>)
    /\ UNCHANGED <<db_version, mempool>>

\* ------------------------------------------------- get_account_transaction
\* What the reader may answer to get_txn_by_account: an error, no record,
\* or a record of a version up to ledger_version, with or without events.
ReaderAccountTransactions(ledger_version, full) ==
    IF ~full THEN {Ok(None), Ok(Some([version |-> ledger_version, events |-> None,
                                      transaction |-> TransactionAt(ledger_version)]))}
    ELSE {DbError, Ok(None)} \cup
         {Ok(Some([version |-> v, events |-> e, transaction |-> TransactionAt(v)])) :
            v \in 0..ledger_version,
            e \in {None, Some(<<>>), Some(<<[key |-> "ek", seq |-> 0]>>)}}

get_account_transaction_check(r) ==
    LET p_account == FromValueString(get_param(r, 0))
        sequence == FromValueU64(get_param(r, 1))
        include_events == FromValueBool(get_param(r, 2))
    IN  IF IsErr(p_account) THEN p_account
        ELSE IF IsErr(sequence) THEN sequence
        ELSE IF IsErr(include_events) THEN include_events
        ELSE IF IsErr(ParseAddress(p_account.val)) THEN ParseAddress(p_account.val)
        ELSE Ok([account |-> p_account.val, sequence |-> sequence.val,
                 include_events |-> include_events.val])

\* get_account_transaction_view without the ensure!: missing events count as none.
get_account_transaction_view_lenient(include_events, tx) ==
    IF IsErr(tx) THEN tx
    ELSE IF ~tx.val.some THEN Ok(None)
    ELSE LET t == tx.val.v
             events == IF t.events.some THEN t.events.v ELSE <<>>
         IN  Ok(Some([version |-> t.version,
                      hash |-> t.transaction.txn,
                      events |-> [j \in 1..Len(events) |->
                                    [transaction_version |-> t.version,
                                     event |-> events[j]]],
                      gas_used |-> t.transaction.gas_used]))

\* get_account_transaction from the reader's answer tx on.
get_account_transaction_view(include_events, tx) ==
    IF IsErr(tx) THEN tx
    ELSE IF ~tx.val.some THEN Ok(None)
    ELSE LET t == tx.val.v
             events == IF t.events.some THEN t.events.v ELSE <<>>
         IN  IF include_events /\ ~t.events.some
             THEN Anyhow("Storage layer didn't return events when requested!")
             ELSE Ok(Some([version |-> t.version,
                           hash |-> t.transaction.txn,
                           events |-> [j \in 1..Len(events) |->
                                         [transaction_version |-> t.version,
                                          event |-> events[j]]],
                           gas_used |-> t.transaction.gas_used]))

GetAccountTransaction(r, full) ==
    /\ Running(r, "get_account_transaction")
    /\ LET a == get_account_transaction_check(r)
       IN  IF IsErr(a) THEN Return(r, a, <<>>)
           ELSE \E tx \in ReaderAccountTransactions(version(r), full) :
                  Return(r, get_account_transaction_view(a.val.include_events, tx),
                         <<Call("get_txn_by_account", version(r),
                                <<a.val.account, a.val.sequence>>, tx)>>)
    /\ UNCHANGED <<db_version, mempool>>

\* -------------------------------------------------------------- get_events
\* What the reader may answer to get_events: an error, or up to MaxEvents
\* events of the stream from start on, each with the version that emitted
\* it. The reader looks at the database as it is now, not at the request's
\* ledger info.
ReaderEvents(start) ==
    {DbError} \cup
    UNION {{Ok([i \in 1..k |-> [version |-> vs[i],
                                event |-> [key |-> "ek", seq |-> start + i - 1]]]) :
              vs \in [1..k -> 0..db_version]} : k \in 0..MaxEvents}

get_events_check(r) ==
    LET raw_event_key == FromValueString(get_param(r, 0))
        start == FromValueU64(get_param(r, 1))
        limit == FromValueU64(get_param(r, 2))
        bytes == HexDecode(raw_event_key.val)
    IN  IF IsErr(raw_event_key) THEN raw_event_key
        ELSE IF IsErr(start) THEN start
        ELSE IF IsErr(limit) THEN limit
        ELSE IF IsErr(bytes) THEN bytes
        ELSE IF IsErr(ParseEventKey(bytes.val)) THEN ParseEventKey(bytes.val)
        ELSE Ok([event_key |-> bytes.val, start |-> start.val, limit |-> limit.val])

\* events_filter that lets an event of the version after the request's through.
events_filter_off_by_one(event_version, req_version) == event_version <= req_version + 1

\* The filter of get_events: an event of a version the request may see.
events_filter(event_version, req_version) == event_version <= req_version

\* get_events from the reader's answer on.
get_events_views(req_version, events_with_proof) ==
    IF IsErr(events_with_proof) THEN events_with_proof
    ELSE LET kept == SelectSeq(events_with_proof.val,
                               LAMBDA e : events_filter(e.version, req_version))
         IN  Ok([i \in 1..Len(kept) |->
                   [key |-> kept[i].event.key,
                    sequence_number |-> kept[i].event.seq,
                    transaction_version |-> kept[i].version]])

GetEvents(r) ==
    /\ Running(r, "get_events")
    /\ LET a == get_events_check(r)
       IN  IF IsErr(a) THEN Return(r, a, <<>>)
           ELSE \E evs \in ReaderEvents(a.val.start) :
                  Return(r, get_events_views(version(r), evs),
                         <<Call("get_events", NoVersion,
                                <<a.val.event_key, a.val.start, a.val.limit>>, evs)>>)
    /\ UNCHANGED <<db_version, mempool>>

\* --------------------------------------------------------- currencies_info
\* A resource blob: one that does not parse, the registered-currencies
\* directory, or the CurrencyInfoResource of one currency.
CorruptBlob == [valid |-> FALSE, codes |-> <<>>, code |-> ""]
DirectoryBlob(codes) == [valid |-> TRUE, codes |-> codes, code |-> ""]
CurrencyInfoBlob(code) == [valid |-> TRUE, codes |-> <<>>, code |-> code]

\* What the reader may answer to the fetch of the directory.
ReaderDirectory(full) ==
    IF ~full THEN {Ok(<<DirectoryBlob(<<"LBR">>)>>)}
    ELSE {DbError, Ok(<<>>), Ok(<<CorruptBlob>>),
          Ok(<<DirectoryBlob(<<"LBR">>), DirectoryBlob(<<"LBR">>)>>)} \cup
         {Ok(<<DirectoryBlob(c)>>) : c \in {<<>>, <<"LBR">>, <<"LBR", "Coin1">>, <<"1x">>}}

\* What the reader may answer to the fetch of one resource per code.
ReaderCurrencyInfos(codes, full) ==
    LET infos == [i \in 1..Len(codes) |-> CurrencyInfoBlob(codes[i])]
    IN  IF ~full THEN {Ok(infos)}
        ELSE {DbError, Ok(infos)} \cup
             (IF codes = <<>> THEN {} ELSE {Ok([infos EXCEPT ![1] = CorruptBlob])})

\* currencies_info, first phase: the directory out of the reader's answer.
currencies_directory(raw_data) ==
    IF IsErr(raw_data) THEN raw_data
    ELSE IF Len(raw_data.val) # 1 THEN Anyhow("invalid storage result")
    ELSE IF ~raw_data.val[1].valid THEN Err("lcs", "RegisteredCurrencies")
    ELSE Ok(raw_data.val[1].codes)

\* currencies_info, second phase: one view per blob of the reader's answer.
currencies_views(raw_data) ==
    IF IsErr(raw_data) THEN raw_data
    ELSE IF \E i \in 1..Len(raw_data.val) : ~raw_data.val[i].valid
         THEN Err("lcs", "CurrencyInfoResource")
    ELSE Ok([i \in 1..Len(raw_data.val) |-> [code |-> raw_data.val[i].code]])

\* ------------------------------------------------------------- get_account
Presence == {"absent", "present", "error"}

\* An account blob: whether it parses as an AccountState and, per resource,
\* whether it is absent, present, or present and malformed.
AccountBlob(valid, account, lbr, role, freezing) ==
    [valid |-> valid, account |-> account,
     balances |-> [c \in {"LBR", "Coin1"} |-> IF c = "LBR" THEN lbr ELSE "absent"],
     role |-> role, freezing |-> freezing]

ReaderAccountStates(full) ==
    IF ~full
    THEN {Ok(None), Ok(Some(AccountBlob(TRUE, "present", "present", "present", "present")))}
    ELSE {DbError, Ok(None),
          Ok(Some(AccountBlob(FALSE, "absent", "absent", "absent", "absent")))} \cup
         {Ok(Some(AccountBlob(TRUE, a, b, ro, f))) :
            a \in Presence, b \in Presence, ro \in Presence, f \in Presence}

\* AccountState::get_balance_resources: the balances held in the given
\* currencies; a malformed one among them is an error.
get_balance_resources(blob, currencies) ==
    IF \E i \in 1..Len(currencies) : blob.balances[currencies[i]] = "error"
    THEN Err("lcs", "BalanceResource")
    ELSE Ok({currencies[i] : i \in {j \in 1..Len(currencies) :
                                      blob.balances[currencies[j]] = "present"}})

\* get_account_view that also wants a balance before it makes a view.
get_account_view_needs_balance(response, currency_info) ==
    LET codes == [i \in 1..Len(currency_info) |->
                    FromCurrencyCodeString(currency_info[i].code)]
        bad == {i \in 1..Len(codes) : IsErr(codes[i])}
        currencies == [i \in 1..Len(codes) |-> codes[i].val]
    IN  IF bad # {} THEN codes[CHOOSE i \in bad : \A j \in bad : i <= j]
        ELSE IF ~response.some THEN Ok(None)
        ELSE LET blob == response.v
                 balances == get_balance_resources(blob, currencies)
             IN  IF ~blob.valid THEN Err("lcs", "AccountState")
                 ELSE IF blob.account = "error" THEN Err("lcs", "AccountResource")
                 ELSE IF blob.account = "absent" THEN Ok(None)
                 ELSE IF IsErr(balances) THEN balances
                 ELSE IF balances.val = {} THEN Ok(None)
                 ELSE IF blob.role = "error" THEN Err("lcs", "AccountRole")
                 ELSE IF blob.role = "absent" THEN Ok(None)
                 ELSE IF blob.freezing = "error" THEN Err("lcs", "FreezingBit")
                 ELSE IF blob.freezing = "absent" THEN Ok(None)
                 ELSE Ok(Some([account |-> "a1", balances |-> balances.val,
                               role |-> "role", is_frozen |-> FALSE]))

\* get_account_view that looks at the blob before it parses the codes.
get_account_view_blob_first(response, currency_info) ==
    LET codes == [i \in 1..Len(currency_info) |->
                    FromCurrencyCodeString(currency_info[i].code)]
        bad == {i \in 1..Len(codes) : IsErr(codes[i])}
        currencies == [i \in 1..Len(codes) |-> codes[i].val]
    IN  IF ~response.some THEN Ok(None)
        ELSE IF bad # {} THEN codes[CHOOSE i \in bad : \A j \in bad : i <= j]
        ELSE LET blob == response.v
                 balances == get_balance_resources(blob, currencies)
             IN  IF ~blob.valid THEN Err("lcs", "AccountState")
                 ELSE IF blob.account = "error" THEN Err("lcs", "AccountResource")
                 ELSE IF blob.account = "absent" THEN Ok(None)
                 ELSE IF IsErr(balances) THEN balances
                 ELSE IF blob.role = "error" THEN Err("lcs", "AccountRole")
                 ELSE IF blob.role = "absent" THEN Ok(None)
                 ELSE IF blob.freezing = "error" THEN Err("lcs", "FreezingBit")
                 ELSE IF blob.freezing = "absent" THEN Ok(None)
                 ELSE Ok(Some([account |-> "a1", balances |-> balances.val,
                               role |-> "role", is_frozen |-> FALSE]))

\* get_account from the currency directory on: the codes are turned into
\* identifiers, then the view is put together from the blob.
get_account_view(response, currency_info) ==
    LET codes == [i \in 1..Len(currency_info) |->
                    FromCurrencyCodeString(currency_info[i].code)]
        bad == {i \in 1..Len(codes) : IsErr(codes[i])}
        currencies == [i \in 1..Len(codes) |-> codes[i].val]
    IN  IF bad # {} THEN codes[CHOOSE i \in bad : \A j \in bad : i <= j]
        ELSE IF ~response.some THEN Ok(None)
        ELSE LET blob == response.v
                 balances == get_balance_resources(blob, currencies)
             IN  IF ~blob.valid THEN Err("lcs", "AccountState")
                 ELSE IF blob.account = "error" THEN Err("lcs", "AccountResource")
                 ELSE IF blob.account = "absent" THEN Ok(None)
                 ELSE IF IsErr(balances) THEN balances
                 ELSE IF blob.role = "error" THEN Err("lcs", "AccountRole")
                 ELSE IF blob.role = "absent" THEN Ok(None)
                 ELSE IF blob.freezing = "error" THEN Err("lcs", "FreezingBit")
                 ELSE IF blob.freezing = "absent" THEN Ok(None)
                 ELSE Ok(Some([account |-> "a1", balances |-> balances.val,
                               role |-> "role", is_frozen |-> FALSE]))

\* get_account up to the call of currencies_info: the address and the fetch
\* of the account blob at the request's version.
GetAccountFetch(r, full) ==
    /\ Running(r, "get_account")
    /\ LET address == FromValueString(get_param(r, 0))
           account_address == IF IsOk(address) THEN ParseAddress(address.val)
                              ELSE address
       IN  IF IsErr(account_address) THEN Return(r, account_address, <<>>)
           ELSE \E response \in ReaderAccountStates(full) :
                  LET call == Call("get_account_state_with_proof_by_version",
                                   version(r), <<account_address.val.address>>,
                                   response)
                  IN  IF IsErr(response) THEN Return(r, response, <<call>>)
                      ELSE req' = [req EXCEPT ![r].pc = "currencies_info",
                                              ![r].response = response.val,
                                              ![r].calls = req[r].calls \o <<call>>,
                                              ![r].entered = TRUE]
    /\ UNCHANGED <<db_version, mempool>>

\* currencies_info, first phase, run as get_currencies or inside get_account.
CurrenciesDirectory(r, full) ==
    /\ \/ Running(r, "get_currencies")
       \/ req[r].pc = "currencies_info"
    /\ \E raw_data \in ReaderDirectory(full) :
         LET call == Call("batch_fetch_resources_by_version", version(r),
                          <<"RegisteredCurrencies">>, raw_data)
             directory == currencies_directory(raw_data)
         IN  IF IsErr(directory) THEN Return(r, directory, <<call>>)
             ELSE req' = [req EXCEPT ![r].pc = "currencies_info_2",
                                     ![r].codes = directory.val,
                                     ![r].calls = req[r].calls \o <<call>>,
                                     ![r].entered = TRUE]
    /\ UNCHANGED <<db_version, mempool>>

\* currencies_info, second phase, and what its caller does with the result:
\* get_currencies returns it, get_account goes on to build the view.
CurrenciesInfos(r, full) ==
    /\ req[r].pc = "currencies_info_2"
    /\ \E raw_data \in ReaderCurrencyInfos(req[r].codes, full) :
         LET call == Call("batch_fetch_resources_by_version", version(r),
                          req[r].codes, raw_data)
             currency_info == currencies_views(raw_data)
         IN  IF IsErr(currency_info) \/ req[r].method = "get_currencies"
             THEN Return(r, currency_info, <<call>>)
             ELSE Return(r, get_account_view(req[r].response, currency_info.val),
                         <<call>>)
    /\ UNCHANGED <<db_version, mempool>>

\* ------------------------------------------------------------------ submit
MempoolStatusCodes == {"Accepted", "MempoolIsFull", "InvalidSeqNumber"}

\* What the mempool may put into the response slot.
MempoolAnswers(full) ==
    IF ~full
    THEN {Ok([mempool_status |-> "Accepted", vm_status_opt |-> None]),
          Ok([mempool_status |-> "MempoolIsFull", vm_status_opt |-> None]),
          Ok([mempool_status |-> "Accepted", vm_status_opt |-> Some("vm_status")])}
    ELSE {Err("mempool", "internal")} \cup
         {Ok([mempool_status |-> c, vm_status_opt |-> v]) :
            c \in MempoolStatusCodes, v \in {None, Some("vm_status")}}

\* submit up to the channel: the transaction out of parameter 0.
submit_decode(r) ==
    LET txn_payload == FromValueString(get_param(r, 0))
        bytes == HexDecode(txn_payload.val)
    IN  IF IsErr(txn_payload) THEN txn_payload
        ELSE IF IsErr(bytes) THEN bytes
        ELSE LcsSignedTransaction(bytes.val)

\* submit_result with the admission code looked at before the execution status.
submit_result_code_first(mempool_status, vm_status_opt) ==
    IF mempool_status = "Accepted" THEN Ok("unit")
    ELSE IF vm_status_opt.some THEN Err("JsonRpcError::vm_status", vm_status_opt.v)
    ELSE Err("JsonRpcError::mempool_error", mempool_status)

\* submit after the callback: what the mempool's answer turns into.
submit_result(mempool_status, vm_status_opt) ==
    IF vm_status_opt.some THEN Err("JsonRpcError::vm_status", vm_status_opt.v)
    ELSE IF mempool_status = "Accepted" THEN Ok("unit")
    ELSE Err("JsonRpcError::mempool_error", mempool_status)

\* submit_messages with the send repeated.
submit_messages_retry(transaction) ==
    <<Call("mempool_sender.send", NoVersion, <<transaction>>, Ok("unit")),
      Call("mempool_sender.send", NoVersion, <<transaction>>, Ok("unit"))>>

\* The messages submit hands to the mempool sender for one transaction:
\* one send, never repeated.
submit_messages(transaction) ==
    <<Call("mempool_sender.send", NoVersion, <<transaction>>, Ok("unit"))>>

\* submit: decode, make the one-shot channel and send; then wait.
SubmitSend(r) ==
    /\ Running(r, "submit")
    /\ LET transaction == submit_decode(r)
       IN  IF IsErr(transaction)
           THEN /\ Return(r, transaction, <<>>)
                /\ UNCHANGED mempool
           ELSE LET messages == submit_messages(transaction.val)
                IN  \/ /\ req' = [req EXCEPT ![r].pc = "callback",
                                             ![r].calls = req[r].calls \o messages,
                                             ![r].entered = TRUE]
                       /\ mempool' = [mempool EXCEPT ![r].sent = @ + Len(messages),
                                                     ![r].slot = "held"]
                    \/ /\ Return(r, Err("SendError", "disconnected"),
                                 <<[messages[1] EXCEPT
                                      !.ret = Err("SendError", "disconnected")]>>)
                       /\ UNCHANGED mempool
    /\ UNCHANGED db_version

\* The mempool answers on the slot it holds.
MempoolAnswer(r, full) ==
    /\ mempool[r].slot = "held"
    /\ \E a \in MempoolAnswers(full) :
         mempool' = [mempool EXCEPT ![r].slot = "answered", ![r].answer = a]
    /\ UNCHANGED <<db_version, req>>

\* The mempool drops the slot without an answer.
MempoolDrop(r) ==
    /\ mempool[r].slot = "held"
    /\ mempool' = [mempool EXCEPT ![r].slot = "dropped"]
    /\ UNCHANGED <<db_version, req>>

\* submit wakes up once the slot is answered or dropped.
SubmitCallback(r) ==
    /\ req[r].pc = "callback"
    /\ mempool[r].slot \in {"answered", "dropped"}
    /\ LET a == mempool[r].answer
       IN  IF mempool[r].slot = "dropped"
           THEN Return(r, Err("Canceled", "oneshot"), <<>>)
           ELSE IF IsErr(a) THEN Return(r, a, <<>>)
           ELSE Return(r, submit_result(a.val.mempool_status, a.val.vm_status_opt),
                       <<>>)
    /\ UNCHANGED <<db_version, mempool>>

\* ---------------------------------------------------------- specifications
AllTasks == {1, 2}

Init ==
    /\ db_version = 0
    /\ req = [r \in AllTasks |-> IdleRequest]
    /\ mempool = [r \in AllTasks |-> IdleChannel]

\* One task serving every method, with every parameter list and every
\* answer of the collaborators.
Next ==
    \/ AdvanceLedger
    \/ Receive(1, MethodNames, TRUE)
    \/ Dispatch(1)
    \/ Respond(1)
    \/ GetMetadata(1)
    \/ GetNetworkStatus(1)
    \/ GetStateProof(1)
    \/ GetAccountStateWithProof(1)
    \/ GetTransactions(1, TRUE)
    \/ GetAccountTransaction(1, TRUE)
    \/ GetEvents(1)
    \/ GetAccountFetch(1, TRUE)
    \/ CurrenciesDirectory(1, TRUE)
    \/ CurrenciesInfos(1, TRUE)
    \/ SubmitSend(1)
    \/ MempoolAnswer(1, TRUE)
    \/ MempoolDrop(1)
    \/ SubmitCallback(1)

Spec == Init /\ [][Next]_vars

\* Two tasks side by side over the handlers that read at a version, while
\* the ledger moves on.
ReadMethods ==
    {"get_account", "get_transactions", "get_account_transaction",
     "get_currencies", "get_state_proof"}

ReadNext ==
    \/ AdvanceLedger
    \/ \E r \in AllTasks :
         \/ Receive(r, ReadMethods, FALSE)
         \/ Dispatch(r)
         \/ Respond(r)
         \/ GetStateProof(r)
         \/ GetTransactions(r, FALSE)
         \/ GetAccountTransaction(r, FALSE)
         \/ GetAccountFetch(r, FALSE)
         \/ CurrenciesDirectory(r, FALSE)
         \/ CurrenciesInfos(r, FALSE)

ReadSpec == Init /\ [][ReadNext]_vars

\* Two tasks side by side, submitting and asking for metadata. A task whose
\* response slot was answered or dropped is woken and polled again.
SubmitNext ==
    \/ AdvanceLedger
    \/ \E r \in AllTasks :
         \/ Receive(r, {"submit", "get_metadata"}, FALSE)
         \/ Dispatch(r)
         \/ Respond(r)
         \/ GetMetadata(r)
         \/ SubmitSend(r)
         \/ MempoolAnswer(r, FALSE)
         \/ MempoolDrop(r)
         \/ SubmitCallback(r)

SubmitSpec ==
    Init /\ [][SubmitNext]_vars /\ \A r \in AllTasks : WF_vars(SubmitCallback(r))

\* ================================================================== claims
\* Task r has ended a call of method m whose handler body ran.
Ended(r, m) == req[r].pc = "done" /\ req[r].method = m /\ req[r].entered

IsU64(p) == p.kind = "num" /\ p.n >= 0
IsString(p) == p.kind = "str"
IsBool(p) == p.kind = "bool"

\* ---------------------------------------------------------------------- C1
\* C1: for every answer (admission status, optional execution status) the
\* mempool gives to a submit whose transaction decoded: submit succeeds
\* exactly when the code is Accepted and no execution status is attached; an
\* attached execution status makes it fail with the execution-status error,
\* even if the code is Accepted; no execution status and another code make
\* it fail with the admission error that carries the code.
C1_SubmitResultMapping ==
    \A r \in AllTasks :
      (Ended(r, "submit") /\ mempool[r].slot = "answered" /\ IsOk(mempool[r].answer)) =>
        LET a == mempool[r].answer.val
            res == req[r].result
        IN  /\ IsOk(res) <=> (a.mempool_status = "Accepted" /\ ~a.vm_status_opt.some)
            /\ a.vm_status_opt.some =>
                 (IsErr(res) /\ res.kind = "JsonRpcError::vm_status")
            /\ (~a.vm_status_opt.some /\ a.mempool_status # "Accepted") =>
                 (IsErr(res) /\ res.kind = "JsonRpcError::mempool_error"
                             /\ res.info = a.mempool_status)

\* A submit answered Accepted with an execution status attached has failed.
C1_Witness ==
    \E r \in AllTasks :
      /\ Ended(r, "submit") /\ mempool[r].slot = "answered" /\ IsOk(mempool[r].answer)
      /\ mempool[r].answer.val.mempool_status = "Accepted"
      /\ mempool[r].answer.val.vm_status_opt.some
      /\ IsErr(req[r].result)

\* ---------------------------------------------------------------------- C2
TransactionParamsOk(r) ==
    /\ Len(req[r].params) = 3
    /\ IsU64(req[r].params[1]) /\ IsU64(req[r].params[2]) /\ IsBool(req[r].params[3])

\* The transactions the ledger holds from start up to the request's version.
Available(r, start) ==
    IF start > req[r].ledger_info.version THEN 0
    ELSE req[r].ledger_info.version - start + 1

\* What C2 says of a successful call: the length and, entry by entry, the
\* version and the events.
TransactionsAsClaimed(r) ==
    LET start == req[r].params[1].n
        limit == req[r].params[2].n
        res == req[r].result
    IN  IsOk(res) =>
          /\ Len(req[r].calls) = 1
          /\ Len(res.val) = Min(limit, Available(r, start))
          /\ \A i \in 1..Len(res.val) :
               /\ res.val[i].version = start + (i - 1)
               /\ res.val[i].hash = TransactionAt(start + (i - 1)).txn
               /\ req[r].params[3].n = 1 =>
                    LET batch == req[r].calls[1].ret.val.events.v
                    IN  /\ Len(res.val[i].events) = Len(batch[i])
                        /\ \A j \in 1..Len(batch[i]) :
                             /\ res.val[i].events[j].event = batch[i][j]
                             /\ res.val[i].events[j].transaction_version = start + (i - 1)

\* C2 as stated: a limit of 0 or above 1000 fails with InvalidArguments, the
\* error of the arity check, and the reader is not asked; a limit inside
\* (0, 1000] gives min(limit, available) entries, entry i of version
\* start_version + i with the i-th events list.
C2_AsStated ==
    \A r \in AllTasks :
      (Ended(r, "get_transactions") /\ TransactionParamsOk(r)) =>
        IF req[r].params[2].n = 0 \/ req[r].params[2].n > 1000
        THEN /\ IsErr(req[r].result)
             /\ req[r].result.kind = "invalid_params"
             /\ req[r].result.info = "InvalidArguments"
             /\ req[r].calls = <<>>
        ELSE TransactionsAsClaimed(r)

\* C2, amended: a limit of 0 or above 1000 fails with the plain error
\* "limit must be smaller than 1000", which is not the InvalidArguments
\* error of the arity check, and the reader is not asked; a limit inside
\* (0, 1000] gives, when the call succeeds, min(limit, available) entries,
\* entry i of version start_version + i with the i-th events list.
C2_LimitAndVersions ==
    \A r \in AllTasks :
      (Ended(r, "get_transactions") /\ TransactionParamsOk(r)) =>
        IF req[r].params[2].n = 0 \/ req[r].params[2].n > 1000
        THEN /\ IsErr(req[r].result)
             /\ req[r].result.kind = "anyhow"
             /\ req[r].result.info = "limit must be smaller than 1000"
             /\ req[r].result.kind # "invalid_params"
             /\ req[r].calls = <<>>
        ELSE TransactionsAsClaimed(r)

\* A call with events that returned two entries, fewer than its limit, and
\* a call refused for its limit.
C2_Witness ==
    \E r \in AllTasks :
      /\ Ended(r, "get_transactions") /\ TransactionParamsOk(r)
      /\ req[r].params[2].n = 1000 /\ req[r].params[3].n = 1
      /\ req[r].params[1].n > 0
      /\ IsOk(req[r].result) /\ Len(req[r].result.val) = 2
      /\ Len(req[r].result.val[1].events) = 1

C2_WitnessRefused ==
    \E r \in AllTasks :
      /\ Ended(r, "get_transactions") /\ TransactionParamsOk(r)
      /\ req[r].params[2].n = 1001 /\ IsErr(req[r].result)

\* ---------------------------------------------------------------------- C3
\* The account blob task r's get_account fetched.
FetchedBlob(r) == req[r].response.v

\* No balance resource in the blob: the balance set is absent.
BalanceSetAbsent(blob) == \A c \in DOMAIN blob.balances : blob.balances[c] = "absent"

\* C3 as stated, for the calls that do not fail: get_account returns no
\* account whenever one of account resource, balance set, role and freezing
\* bit is absent from a blob that exists, and a view only when all four are
\* present.
C3_AsStated ==
    \A r \in AllTasks :
      (Ended(r, "get_account") /\ IsOk(req[r].result) /\ req[r].response.some) =>
        LET blob == FetchedBlob(r)
            one_absent == \/ blob.account = "absent"
                          \/ BalanceSetAbsent(blob)
                          \/ blob.role = "absent"
                          \/ blob.freezing = "absent"
        IN  /\ one_absent => req[r].result = Ok(None)
            /\ req[r].result.val.some => ~one_absent

\* C3, amended: of the calls that do not fail, get_account returns a view
\* exactly when the blob exists and account resource, role and freezing bit
\* are present, and no account otherwise; the balance set has no presence
\* check, so an account without any balance still gets a view, with no
\* balances in it.
C3_ViewIffThreePresent ==
    \A r \in AllTasks :
      (Ended(r, "get_account") /\ IsOk(req[r].result)) =>
        /\ req[r].result.val.some <=>
             /\ req[r].response.some
             /\ FetchedBlob(r).account = "present"
             /\ FetchedBlob(r).role = "present"
             /\ FetchedBlob(r).freezing = "present"
        /\ req[r].result.val.some =>
             \A c \in req[r].result.val.v.balances :
               FetchedBlob(r).balances[c] = "present"

\* A view made of a blob that holds no balance at all.
C3_Witness ==
    \E r \in AllTasks :
      /\ Ended(r, "get_account") /\ IsOk(req[r].result)
      /\ req[r].result.val.some
      /\ req[r].codes # <<>>
      /\ BalanceSetAbsent(FetchedBlob(r))
      /\ req[r].result.val.v.balances = {}

\* ---------------------------------------------------------------------- C4
\* The events of list that a request of version v may see, in the list's order.
RECURSIVE UpTo(_, _)
UpTo(list, v) ==
    IF list = <<>> THEN <<>>
    ELSE IF Head(list).version > v THEN UpTo(Tail(list), v)
    ELSE <<Head(list)>> \o UpTo(Tail(list), v)

\* C4: get_events returns no event of a version above the request's version,
\* whatever the reader returned and however far the ledger has moved on, and
\* it returns every event up to that version, in the reader's order.
C4_EventsUpToRequestVersion ==
    \A r \in AllTasks :
      (Ended(r, "get_events") /\ IsOk(req[r].result)) =>
        LET views == req[r].result.val
            seen == UpTo(req[r].calls[1].ret.val, req[r].ledger_info.version)
        IN  /\ \A i \in 1..Len(views) :
                 views[i].transaction_version <= req[r].ledger_info.version
            /\ Len(views) = Len(seen)
            /\ \A i \in 1..Len(seen) :
                 /\ views[i].transaction_version = seen[i].version
                 /\ views[i].sequence_number = seen[i].event.seq

\* The ledger moved on after the request arrived, the reader returned an
\* event of the new version first and an older one after it, and only the
\* older one came back.
C4_Witness ==
    \E r \in AllTasks :
      /\ Ended(r, "get_events") /\ IsOk(req[r].result)
      /\ db_version > req[r].ledger_info.version
      /\ Len(req[r].calls[1].ret.val) = 2
      /\ req[r].calls[1].ret.val[1].version > req[r].ledger_info.version
      /\ req[r].calls[1].ret.val[2].version <= req[r].ledger_info.version
      /\ Len(req[r].result.val) = 1

\* ---------------------------------------------------------------------- C5
AccountTransactionParamsOk(r) ==
    /\ Len(req[r].params) = 3
    /\ req[r].params[1] = Str("a1")
    /\ IsU64(req[r].params[2]) /\ IsBool(req[r].params[3])

\* C5: get_account_transaction with include_events on a record without
\* events fails with the error of the storage layer not returning events;
\* without include_events such a record gives a view with no events; and no
\* record gives "not found" as a success, with or without include_events.
C5_AccountTransactionEvents ==
    \A r \in AllTasks :
      (Ended(r, "get_account_transaction") /\ AccountTransactionParamsOk(r)) =>
        LET tx == req[r].calls[1].ret
            include_events == req[r].params[3].n = 1
            res == req[r].result
        IN  /\ Len(req[r].calls) = 1
            /\ (IsOk(tx) /\ ~tx.val.some) => res = Ok(None)
            /\ (IsOk(tx) /\ tx.val.some /\ ~tx.val.v.events.some) =>
                 IF include_events
                 THEN /\ IsErr(res)
                      /\ res.kind = "anyhow"
                      /\ res.info = "Storage layer didn't return events when requested!"
                 ELSE /\ IsOk(res) /\ res.val.some
                      /\ res.val.v.events = <<>>
                      /\ res.val.v.version = tx.val.v.version

\* A call with include_events that got a record without events and failed.
C5_Witness ==
    \E r \in AllTasks :
      /\ Ended(r, "get_account_transaction") /\ AccountTransactionParamsOk(r)
      /\ req[r].params[3].n = 1
      /\ IsOk(req[r].calls[1].ret) /\ req[r].calls[1].ret.val.some
      /\ ~req[r].calls[1].ret.val.v.events.some
      /\ IsErr(req[r].result)

\* ---------------------------------------------------------------------- C6
\* The version a parameter stands for: itself when it is an unsigned
\* number, the version of the request's ledger info otherwise.
Resolved(r, p) == IF IsU64(p) THEN p.n ELSE req[r].ledger_info.version

C6_WitnessIndependent ==
    \E r \in AllTasks :
      /\ Ended(r, "get_account_state_with_proof") /\ req[r].params[1] = Str("a1")
      /\ req[r].params[2] = Str("1") /\ req[r].params[3] = Num(0)
      /\ req[r].ledger_info.version > 0
      /\ IsOk(req[r].result)

\* ---------------------------------------------------------------------- C7
\* The parameter-count bounds C7 lists, method by method.
ClaimedBounds ==
    ("submit" :> <<1, 1>>) @@ ("get_metadata" :> <<0, 1>>) @@
    ("get_account" :> <<1, 1>>) @@ ("get_transactions" :> <<3, 3>>) @@
    ("get_account_transaction" :> <<3, 3>>) @@ ("get_events" :> <<3, 3>>) @@
    ("get_currencies" :> <<0, 0>>) @@ ("get_state_proof" :> <<1, 1>>) @@
    ("get_account_state_with_proof" :> <<3, 3>>) @@
    ("get_network_status" :> <<0, 0>>)

C7_WitnessRefused ==
    \E r \in AllTasks :
      /\ req[r].method = "get_currencies" /\ Len(req[r].params) = 1
      /\ req[r].pc = "done" /\ ~req[r].entered /\ IsErr(req[r].result)

\* ---------------------------------------------------------------------- C8
\* The reader calls that take a version or a ledger info from the request.
VersionBoundedReads ==
    {"get_account_state_with_proof_by_version", "batch_fetch_resources_by_version",
     "get_transactions", "get_txn_by_account", "get_state_proof_with_ledger_info"}

ReadsAtOwnVersion ==
    \A r \in AllTasks : \A i \in 1..Len(req[r].calls) :
      /\ req[r].calls[i].fn # "get_latest_ledger_info"
      /\ req[r].calls[i].fn \in VersionBoundedReads =>
           req[r].calls[i].ver = req[r].ledger_info.version

LedgerInfoKept ==
    \A r \in AllTasks :
      (req[r].pc # "idle" /\ req'[r].pc # "idle") =>
        req'[r].ledger_info = req[r].ledger_info

\* C8: a request keeps the ledger info it was created with while the ledger
\* moves on and the other task runs; no handler asks for the latest ledger
\* info again, and every read at a version that one request makes carries
\* the version of its own ledger info.
C8_SnapshotIsolation == []ReadsAtOwnVersion /\ [][LedgerInfoKept]_vars

\* get_account has made its three reads for a request older than the
\* database, while the other task reads for a request of another version.
C8_Witness ==
    \E r, q \in AllTasks :
      /\ Ended(r, "get_account") /\ Len(req[r].calls) = 3
      /\ db_version > req[r].ledger_info.version
      /\ req[q].pc # "idle" /\ Len(req[q].calls) > 0
      /\ req[q].ledger_info.version # req[r].ledger_info.version

\* ---------------------------------------------------------------------- C9
\* The messages task r's submit has handed to the mempool sender.
Sends(r) == Len(SelectSeq(req[r].calls, LAMBDA c : c.fn = "mempool_sender.send"))

Decodes(r) == Len(req[r].params) = 1 /\ req[r].params[1] = Str("7478")

OneMessage ==
    \A r \in AllTasks :
      req[r].method = "submit" =>
        /\ Sends(r) <= 1
        /\ mempool[r].sent <= Sends(r)
        /\ mempool[r].slot # "none" => mempool[r].sent = 1
        /\ (req[r].entered /\ Decodes(r)) => Sends(r) = 1
        /\ ~Decodes(r) => Sends(r) = 0

\* A submit that has returned did so on an answer, or on the slot being
\* dropped, never while the mempool still holds the slot; and its result
\* comes from that answer.
ReturnsOnAnswerOnly ==
    \A r \in AllTasks :
      (req[r].method = "submit" /\ req[r].pc = "done") =>
        /\ mempool[r].slot # "held"
        /\ mempool[r].slot = "answered" =>
             LET a == mempool[r].answer
             IN  IF IsErr(a) THEN req[r].result = a
                 ELSE IF a.val.vm_status_opt.some
                 THEN IsErr(req[r].result) /\ req[r].result.info = a.val.vm_status_opt.v
                 ELSE IF a.val.mempool_status = "Accepted" THEN IsOk(req[r].result)
                 ELSE IsErr(req[r].result) /\ req[r].result.info = a.val.mempool_status

\* A waiting or failed submit in one task leaves the other task able to go on.
OthersNotBlocked ==
    \A r, q \in AllTasks :
      (r # q /\ req[r].method = "submit"
            /\ (req[r].pc = "callback" \/ (req[r].pc = "done" /\ IsErr(req[r].result)))) =>
        /\ req[q].pc = "received" => ENABLED Dispatch(q)
        /\ Running(q, "get_metadata") => ENABLED GetMetadata(q)
        /\ Running(q, "submit") => ENABLED SubmitSend(q)

\* A step of one task, or of the mempool on its slot, leaves the other task alone.
OthersUntouched ==
    \A r, q \in AllTasks :
      (r # q /\ (req'[r] # req[r] \/ mempool'[r] # mempool[r])) =>
        (req'[q] = req[q] /\ mempool'[q] = mempool[q])

AnsweredLeadsToReturn ==
    \A r \in AllTasks :
      (req[r].pc = "callback" /\ mempool[r].slot = "answered") ~> (req[r].pc = "done")

\* C9: a submit whose transaction decodes sends one message to the mempool
\* and never a second; one that does not decode sends none; once the
\* mempool has answered on the slot, submit returns with a result made from
\* that answer; while the mempool holds the slot, submit does not return;
\* and a submit that waits or has failed neither blocks the other task nor
\* touches its request.
C9_SingleHandshake ==
    /\ [](OneMessage /\ ReturnsOnAnswerOnly /\ OthersNotBlocked)
    /\ [][OthersUntouched]_vars
    /\ AnsweredLeadsToReturn

\* One task waits on a slot the mempool holds while the other has gone
\* through a whole submit that the mempool refused.
C9_Witness ==
    \E r, q \in AllTasks :
      /\ req[r].method = "submit" /\ req[r].pc = "callback" /\ mempool[r].slot = "held"
      /\ Sends(r) = 1
      /\ req[q].method = "submit" /\ req[q].pc = "done" /\ mempool[q].slot = "answered"
      /\ IsErr(req[q].result)

\* --------------------------------------------------------------------- C10
\* Task r's get_account found no blob for the address.
BlobAbsent(r) ==
    /\ Ended(r, "get_account")
    /\ Len(req[r].calls) >= 1
    /\ req[r].calls[1].ret = Ok(None)

\* C10 as stated: with no blob for the address get_account returns "no
\* account", and the currency directory is fetched only once a blob was found.
C10_AsStated ==
    \A r \in AllTasks :
      BlobAbsent(r) => (req[r].result = Ok(None) /\ Len(req[r].calls) = 1)

\* C10, amended: get_account fetches the currency directory, at the
\* request's version, whether or not the blob was found, before it looks at
\* the blob. With no blob it returns "no account" when both fetches of the
\* directory and the parsing of the currency codes succeed, and the error of
\* the directory fetch or of the code parsing otherwise.
C10_DirectoryFetchedFirst ==
    \A r \in AllTasks :
      BlobAbsent(r) =>
        /\ Len(req[r].calls) >= 2
        /\ \A i \in 2..Len(req[r].calls) :
             /\ req[r].calls[i].fn = "batch_fetch_resources_by_version"
             /\ req[r].calls[i].ver = req[r].ledger_info.version
        /\ IsOk(req[r].result) => req[r].result = Ok(None)
        /\ IsErr(currencies_directory(req[r].calls[2].ret)) =>
             req[r].result = currencies_directory(req[r].calls[2].ret)
        /\ Len(req[r].calls) = 3 =>
             LET currency_info == currencies_views(req[r].calls[3].ret)
             IN  IF IsErr(currency_info) THEN req[r].result = currency_info
                 ELSE IF \E i \in 1..Len(currency_info.val) :
                           currency_info.val[i].code \notin {"LBR", "Coin1"}
                 THEN IsErr(req[r].result) /\ req[r].result.kind = "identifier"
                 ELSE req[r].result = Ok(None)

\* No blob for the address, and the call failed on a currency code.
C10_Witness ==
    \E r \in AllTasks :
      /\ BlobAbsent(r) /\ Len(req[r].calls) = 3
      /\ IsErr(req[r].result) /\ req[r].result.kind = "identifier"

====
